---- MODULE Spec2Model ----
(***************************************************************************)
(* A model of the combinational-circuit diagnoser DiagnosisSystemClass     *)
(* (src/DiagnosisSystemClass.py): the model loader (_parseModel,           *)
(* _topologicalSort), the gate evaluator, the simulator, the consistency   *)
(* checker and the single-fault diagnoser (Input).                         *)
(*                                                                         *)
(* Names (ports, gates, pins, wire labels) and component types are         *)
(* strings; startswith, len, f-string formatting and comparison are        *)
(* computed on them as the code computes them.                             *)
(***************************************************************************)
EXTENDS Integers, Sequences, FiniteSets, TLC

(***************************************************************************)
(* Bounds of the model.                                                    *)
(***************************************************************************)
\* longest inverter chain among the small model files
MaxChain == 3
\* length of the long inverter chain, past the first deadline check that
\* follows the one at gate index 0
LongChain == 101
\* largest number of port keys a sample may leave out
MaxAbsent == 1

(***************************************************************************)
(* Strings.                                                                *)
(***************************************************************************)
\* None, and the empty string: both are falsy at the code's `if output:`
None == ""

DigitChar == <<"0", "1", "2", "3", "4", "5", "6", "7", "8", "9">>

\* str(n) of a natural number, as the f-strings f"{name}.i{i}" format it
RECURSIVE Digits(_)
Digits(n) ==
    IF n < 10 THEN DigitChar[n + 1]
    ELSE Digits(n \div 10) \o DigitChar[(n % 10) + 1]

\* f"{name}.i{i}"
InputPin(name, i) == name \o ".i" \o Digits(i)

\* f"{name}.o"
OutputPin(name) == name \o ".o"

\* name.startswith(prefix)
StartsWith(name, prefix) ==
    Len(name) >= Len(prefix) /\ SubSeq(name, 1, Len(prefix)) = prefix

\* the elements of a sequence
Range(s) == {s[k] : k \in 1..Len(s)}

(***************************************************************************)
(* Model files.  A model file is what ET.parse hands to _parseModel: the   *)
(* component elements (name, componentType) and the connection elements    *)
(* (c1, c2), both in document order; wellformed is FALSE for a file that   *)
(* ET.parse rejects.                                                       *)
(***************************************************************************)
Nm(c, k) == c \o Digits(k)
i1 == "i1"
i2 == "i2"
o1 == "o1"
o2 == "o2"
z1 == "z1"
z2 == "z2"
g1 == "g1"
g2 == "g2"
g3 == "g3"
g4 == "g4"

\* a pin that the file declares as a component but connects to nothing
Unwired == ""
\* an output pin that the file does not declare
Undeclared == "-"

\* one gate of a netlist: its pins i1..ia are wired, in order, to ins[1..a]
Gate(name, type, ins, out) == [name |-> name, type |-> type, ins |-> ins, out |-> out]

\* the component elements of one gate: the gate, its input pins, its output pin
GateComponents(g) ==
    <<<<g.name, g.type>>>>
    \o [k \in 1..Len(g.ins) |-> <<InputPin(g.name, k), "wire">>]
    \o (IF g.out = Undeclared THEN << >> ELSE <<<<OutputPin(g.name), "wire">>>>)

\* the connection elements of one pin: gate to pin, then pin to signal
PinConnections(name, pin, signal) ==
    <<<<name, pin>>>> \o (IF signal = Unwired THEN << >> ELSE <<<<pin, signal>>>>)

RECURSIVE InputConnections(_, _)
InputConnections(g, k) ==
    IF k > Len(g.ins) THEN << >>
    ELSE PinConnections(g.name, InputPin(g.name, k), g.ins[k]) \o InputConnections(g, k + 1)

GateConnections(g) ==
    InputConnections(g, 1)
    \o (IF g.out = Undeclared THEN << >>
        ELSE PinConnections(g.name, OutputPin(g.name), g.out))

\* the concatenation of the sequences of ss, by halves
RECURSIVE Flatten(_)
Flatten(ss) ==
    IF ss = << >> THEN << >>
    ELSE IF Len(ss) = 1 THEN ss[1]
    ELSE LET mid == Len(ss) \div 2
         IN  Flatten(SubSeq(ss, 1, mid)) \o Flatten(SubSeq(ss, mid + 1, Len(ss)))

\* the file of a netlist: the gates in order, then the ports in order
Render(gs, ports) ==
    [wellformed  |-> TRUE,
     components  |-> Flatten([k \in 1..Len(gs) |-> GateComponents(gs[k])])
                     \o [k \in 1..Len(ports) |-> <<ports[k], "port">>],
     connections |-> Flatten([k \in 1..Len(gs) |-> GateConnections(gs[k])])]

\* a file that is not XML
Malformed == [wellformed |-> FALSE, components |-> << >>, connections |-> << >>]

(***************************************************************************)
(* The model files of the check.                                           *)
(***************************************************************************)
OneInputTypes == {"buf1", "not1", "buffer", "inverter"}
ThreeInputTypes == {"nand3", "nor3"}
\* xor3 is not in the loader's list of gate types
SingleTypes == OneInputTypes \cup ThreeInputTypes
               \cup {"and2", "nand2", "or2", "nor2", "xor2", "xor3"}

\* one gate of type t between the input ports and o1
SingleGate(t) ==
    IF t \in OneInputTypes
    THEN Render(<<Gate(g1, t, <<i1>>, o1)>>, <<i1, o1>>)
    ELSE IF t \in ThreeInputTypes
    THEN Render(<<Gate(g1, t, <<i1, i2, i1>>, o1)>>, <<i1, i2, o1>>)
    ELSE Render(<<Gate(g1, t, <<i1, i2>>, o1)>>, <<i1, i2, o1>>)

\* a chain of n inverters from i1 to o1, through z1..z(n-1)
ChainGate(n, k) ==
    Gate(Nm("g", k), "not1",
         <<IF k = 1 THEN i1 ELSE Nm("z", k - 1)>>,
         IF k = n THEN o1 ELSE Nm("z", k))

Chain(n) == Render([k \in 1..n |-> ChainGate(n, k)], <<i1, o1>>)

\* and2 feeding not1
AndNot == Render(<<Gate(g1, "and2", <<i1, i2>>, z1), Gate(g2, "not1", <<z1>>, o1)>>,
                 <<i1, i2, o1>>)

\* the same circuit with the consumer listed before its producer
AndNotReversed ==
    Render(<<Gate(g1, "not1", <<z1>>, o1), Gate(g2, "and2", <<i1, i2>>, z1)>>,
           <<o1, i2, i1>>)

\* two independent outputs, the ports listed out of order
TwoOutputs == Render(<<Gate(g1, "buf1", <<i1>>, o1), Gate(g2, "not1", <<i2>>, o2)>>,
                     <<o2, i2, o1, i1>>)

\* a fan-out node feeding two outputs
FanOut == Render(<<Gate(g1, "and2", <<i1, i2>>, z1), Gate(g2, "buf1", <<z1>>, o1),
                   Gate(g3, "not1", <<z1>>, o2)>>,
                 <<i1, i2, o1, o2>>)

\* both pins of a gate fed by the same producer
SameProducer == Render(<<Gate(g1, "not1", <<i1>>, z1), Gate(g2, "xor2", <<z1, z1>>, z2),
                         Gate(g3, "or2", <<z2, z1>>, o1)>>,
                       <<i1, o1>>)

\* a gate that drives an input port
DrivesInput == Render(<<Gate(g1, "not1", <<i1>>, i2), Gate(g2, "buf1", <<i2>>, o1)>>,
                      <<i1, i2, o1>>)

\* g1 and g2 on a cycle, g3 downstream of it, g4 apart
Cycle == Render(<<Gate(g1, "and2", <<i1, z2>>, z1), Gate(g2, "not1", <<z1>>, z2),
                  Gate(g3, "buf1", <<z1>>, o1), Gate(g4, "buf1", <<i2>>, o2)>>,
                <<i1, i2, o1, o2>>)

\* a gate fed by its own output
SelfLoop == Render(<<Gate(g1, "or2", <<i1, o1>>, o1)>>, <<i1, o1>>)

\* two gates driving o1
TwoDrivers == Render(<<Gate(g1, "buf1", <<i1>>, o1), Gate(g2, "not1", <<i2>>, o1)>>,
                     <<i1, i2, o1>>)

\* g1 and g2 both drive z1, which g4 reads; no cycle
TwoDriversDeep ==
    Render(<<Gate(g1, "buf1", <<z2>>, z1), Gate(g2, "buf1", <<i1>>, z1),
             Gate(g3, "buf1", <<i2>>, z2), Gate(g4, "buf1", <<z1>>, o1)>>,
           <<i1, i2, o1>>)

\* pin g2.i2 is declared and connected to nothing
UnwiredSecond == Render(<<Gate(g1, "buf1", <<i1>>, z1), Gate(g2, "and2", <<z1, Unwired>>, o1)>>,
                        <<i1, o1>>)

\* pin g1.i1 is declared and connected to nothing
UnwiredFirst == Render(<<Gate(g1, "or2", <<Unwired, i2>>, o1)>>, <<i1, i2, o1>>)

\* pin g1.o is declared and connected to nothing
UnwiredOutput == Render(<<Gate(g1, "buf1", <<i1>>, Unwired), Gate(g2, "not1", <<i2>>, o1)>>,
                        <<i1, i2, o1>>)

\* pin g1.o is not declared
NoOutputPin == Render(<<Gate(g1, "not1", <<i1>>, Undeclared), Gate(g2, "buf1", <<i1>>, o1)>>,
                      <<i1, o1>>)

\* ports with names of one and of two digits, out of order in the file; a
\* port that is neither an input nor an output; components whose names start
\* with i and o and that are no ports, i4 by a later element of the same name
MixedPorts ==
    LET file == Render(<<Gate(g1, "buf1", <<"i10">>, "o10"), Gate(g2, "not1", <<i2>>, o2)>>,
                       <<"o10", "i10", o2, i2, "p1", "i4">>)
    IN  [file EXCEPT !.components =
             @ \o <<<<"i3", "wire">>, <<"o3", "wire">>, <<"i4", "wire">>>>]

ModelFiles ==
    {SingleGate(t) : t \in SingleTypes}
    \cup {Chain(n) : n \in 1..MaxChain}
    \cup {Chain(LongChain)}
    \cup {AndNot, AndNotReversed, TwoOutputs, FanOut, SameProducer, DrivesInput,
          Cycle, SelfLoop, TwoDrivers, TwoDriversDeep,
          UnwiredSecond, UnwiredFirst, UnwiredOutput, NoOutputPin, MixedPorts,
          Malformed}

(***************************************************************************)
(* Python dicts keep insertion order: a dict is a sequence of <<key,       *)
(* value>> pairs with distinct keys, in the order the keys were first set. *)
(***************************************************************************)
DictKeys(d) == {d[k][1] : k \in 1..Len(d)}

(***************************************************************************)
(* _parseModel                                                             *)
(***************************************************************************)
\* components[name.text] = ctype.text over the component elements, in order
\* the first n of them: a name keeps the place of its first element and the
\* type of its last
ParseComponents(elems, n) ==
    LET first == SelectSeq([k \in 1..n |-> k],
                           LAMBDA k : \A j \in 1..(k - 1) : elems[j][1] # elems[k][1])
        last(name) == CHOOSE k \in 1..n :
                          /\ elems[k][1] = name
                          /\ \A j \in (k + 1)..n : elems[j][1] # name
    IN  [m \in 1..Len(first) |->
            <<elems[first[m]][1], elems[last(elems[first[m]][1])][2]>>]

\* conn_map[e]: every connection appends c2 to conn_map[c1], then c1 to conn_map[c2]
\* (over the first n connections)
ConnMap(conns, n, e) ==
    LET touching == SelectSeq(SubSeq(conns, 1, n), LAMBDA c : c[1] = e \/ c[2] = e)
    IN  Flatten([k \in 1..Len(touching) |->
                    (IF touching[k][1] = e THEN <<touching[k][2]>> ELSE << >>)
                    \o (IF touching[k][2] = e THEN <<touching[k][1]>> ELSE << >>)])

\* the loop `for connected in conn_map[wire]: if connected != name: ...; break`:
\* the first neighbour that is not the gate itself, if there is one
RECURSIVE FirstOther(_, _)
FirstOther(neighbours, name) ==
    IF neighbours = << >> THEN << >>
    ELSE IF Head(neighbours) # name THEN <<Head(neighbours)>>
    ELSE FirstOther(Tail(neighbours), name)

\* the order of the characters of the names, as Python compares code points
Alphabet == <<"-", ".", "0", "1", "2", "3", "4", "5", "6", "7", "8", "9",
              "a", "b", "c", "d", "e", "f", "g", "h", "i", "j", "k", "l", "m",
              "n", "o", "p", "q", "r", "s", "t", "u", "v", "w", "x", "y", "z">>

Ord(c) == CHOOSE k \in 1..Len(Alphabet) : Alphabet[k] = c

\* a < b for strings
RECURSIVE StrLess(_, _)
StrLess(a, b) ==
    IF b = "" THEN FALSE
    ELSE IF a = "" THEN TRUE
    ELSE IF Head(a) # Head(b) THEN Ord(Head(a)) < Ord(Head(b))
    ELSE StrLess(Tail(a), Tail(b))

\* (len(a), a) < (len(b), b)
KeyLess(a, b) == Len(a) < Len(b) \/ (Len(a) = Len(b) /\ StrLess(a, b))

\* a slip: list.sort() without the key
RECURSIVE SortNamesLex(_)
SortNamesLex(names) ==
    IF names = << >> THEN << >>
    ELSE LET rest == SortNamesLex(SubSeq(names, 1, Len(names) - 1))
             x    == names[Len(names)]
             keep == SelectSeq(rest, LAMBDA y : ~StrLess(x, y))
             move == SelectSeq(rest, LAMBDA y : StrLess(x, y))
         IN  keep \o <<x>> \o move

\* list.sort(key=lambda x: (len(x), x)), a stable sort
RECURSIVE SortNames(_)
SortNames(names) ==
    IF names = << >> THEN << >>
    ELSE LET rest == SortNames(SubSeq(names, 1, Len(names) - 1))
             x    == names[Len(names)]
             keep == SelectSeq(rest, LAMBDA y : ~KeyLess(x, y))
             move == SelectSeq(rest, LAMBDA y : KeyLess(x, y))
         IN  keep \o <<x>> \o move

\* the ports whose name starts with c, in the order of the components dict
PortList(components, c) ==
    LET sel == SelectSeq(components, LAMBDA e : e[2] = "port" /\ StartsWith(e[1], c))
    IN  [k \in 1..Len(sel) |-> sel[k][1]]

ParseInputs(components) == SortNames(PortList(components, "i"))

\* `elif name.startswith('o')`: reached only by ports that do not start with i
ParseOutputs(components) == SortNames(PortList(components, "o"))

\* the component types _parseModel takes for gates
GateTypes == {"nand2", "and2", "or2", "nor2", "xor2", "not1", "buf1",
              "nand3", "and3", "or3", "nor3", "nand4", "and4", "or4", "nor4",
              "nand5", "and5", "or5", "nor5", "nand8", "and8", "and9", "nor8",
              "inverter", "buffer"}

\* the loop `while f"{name}.i{i}" in components`, from pin i on
RECURSIVE ScanInputs(_, _, _, _)
ScanInputs(components, conns, name, i) ==
    IF InputPin(name, i) \in DictKeys(components)
    THEN FirstOther(ConnMap(conns, Len(conns), InputPin(name, i)), name)
         \o ScanInputs(components, conns, name, i + 1)
    ELSE << >>

ScanOutput(components, conns, name) ==
    IF OutputPin(name) \in DictKeys(components)
    THEN LET hit == FirstOther(ConnMap(conns, Len(conns), OutputPin(name)), name)
         IN  IF hit = << >> THEN None ELSE hit[1]
    ELSE None

\* gate_info, in the order of the components dict
GateInfo(components, conns) ==
    LET sel == SelectSeq(components, LAMBDA e : e[2] \in GateTypes)
    IN  [k \in 1..Len(sel) |->
            [name   |-> sel[k][1],
             type   |-> sel[k][2],
             inputs |-> ScanInputs(components, conns, sel[k][1], 1),
             output |-> ScanOutput(components, conns, sel[k][1])]]

(***************************************************************************)
(* _topologicalSort                                                        *)
(***************************************************************************)
\* output_to_gate: `if output: output_to_gate[output] = gate_name` over the
\* gates in order, so a signal keeps the last gate that names it
OutputToGate(info) ==
    LET driven == {info[k].output : k \in 1..Len(info)} \ {None}
    IN  [s \in driven |->
            LET last == CHOOSE k \in 1..Len(info) :
                            /\ info[k].output = s
                            /\ \A m \in 1..Len(info) : info[m].output = s => m <= k
            IN  info[last].name]

\* the inputs of a gate that output_to_gate knows, in pin order
KnownInputs(g, otg) == SelectSeq(g.inputs, LAMBDA inp : inp \in DOMAIN otg)

\* in_degree[gate_name]: one for every input whose signal has a producer
InDegree(info, otg) ==
    [n \in {info[k].name : k \in 1..Len(info)} |->
        LET g == info[CHOOSE k \in 1..Len(info) : info[k].name = n]
        IN  Len(KnownInputs(g, otg))]

\* the pairs <<producer, gate_name>> in the order `graph[producer].append(
\* gate_name)` is executed: gate by gate, input by input
GraphEdges(info, otg) ==
    Flatten([k \in 1..Len(info) |->
        LET known == KnownInputs(info[k], otg)
        IN  [m \in 1..Len(known) |-> <<otg[known[m]], info[k].name>>]])

\* graph[producer]: its consumers in the order they were appended
GraphOf(edges, producer) ==
    LET mine == SelectSeq(edges, LAMBDA e : e[1] = producer)
    IN  [m \in 1..Len(mine) |-> mine[m][2]]

\* `for dependent in graph[gate]`: decrement, and enqueue at zero
RECURSIVE Relax(_, _, _)
Relax(deps, indeg, queue) ==
    IF deps = << >> THEN [indeg |-> indeg, queue |-> queue]
    ELSE LET d    == Head(deps)
             less == [indeg EXCEPT ![d] = @ - 1]
         IN  Relax(Tail(deps), less, IF less[d] = 0 THEN Append(queue, d) ELSE queue)

\* a slip: queue.pop() in place of queue.pop(0)
KahnStepLifo(info, edges, st) ==
    IF st.queue = << >> THEN st
    ELSE LET gate == st.queue[Len(st.queue)]
             g    == info[CHOOSE k \in 1..Len(info) : info[k].name = gate]
             r    == Relax(GraphOf(edges, gate), st.indeg,
                           SubSeq(st.queue, 1, Len(st.queue) - 1))
         IN  [queue |-> r.queue, indeg |-> r.indeg, sorted |-> Append(st.sorted, g)]

\* one turn of `while queue: gate = queue.pop(0) ...`; nothing once the
\* queue is empty
KahnStep(info, edges, st) ==
    IF st.queue = << >> THEN st
    ELSE LET gate == Head(st.queue)
             g    == info[CHOOSE k \in 1..Len(info) : info[k].name = gate]
             r    == Relax(GraphOf(edges, gate), st.indeg, Tail(st.queue))
         IN  [queue |-> r.queue, indeg |-> r.indeg, sorted |-> Append(st.sorted, g)]

\* n turns of the loop, by halves
RECURSIVE Kahn(_, _, _, _)
Kahn(info, edges, st, n) ==
    IF n = 0 THEN st
    ELSE IF n = 1 THEN KahnStep(info, edges, st)
    ELSE LET half == Kahn(info, edges, st, n \div 2)
         IN  IF half.queue = << >> THEN half
             ELSE Kahn(info, edges, half, n - (n \div 2))

\* a gate enters the queue at most once, so the loop makes at most
\* len(gate_info) turns
TopologicalSort(info) ==
    LET otg   == OutputToGate(info)
        indeg == InDegree(info, otg)
        names == [k \in 1..Len(info) |-> info[k].name]
        queue == SelectSeq(names, LAMBDA n : indeg[n] = 0)
        edges == GraphEdges(info, otg)
    IN  Kahn(info, edges, [queue |-> queue, indeg |-> indeg, sorted |-> << >>],
             Len(info)).sorted

\* what _parseModel stores for a well-formed file
ParseModel(file) ==
    LET components == ParseComponents(file.components, Len(file.components))
    IN  [inputs  |-> ParseInputs(components),
         outputs |-> ParseOutputs(components),
         gates   |-> TopologicalSort(GateInfo(components, file.connections))]

(***************************************************************************)
(* _computeGateOutput.  An evaluation either yields a value or raises      *)
(* IndexError (an index past the end of in_vals).                          *)
(***************************************************************************)
Value(v) == [raised |-> "none", val |-> v]
IndexError == [raised |-> "IndexError", val |-> FALSE]

\* in_vals[k], k counted from 0
At(in_vals, k) == IF k < Len(in_vals) THEN Value(in_vals[k + 1]) ELSE IndexError

\* `a and b`: b is evaluated only when a is true
AndThen(a, b) == IF a.raised # "none" \/ ~a.val THEN a ELSE b

\* `a or b`: b is evaluated only when a is false
OrElse(a, b) == IF a.raised # "none" \/ a.val THEN a ELSE b

\* `not a`
Negate(a) == IF a.raised # "none" THEN a ELSE Value(~a.val)

\* all(in_vals) and any(in_vals)
AllOf(in_vals) == \A k \in 1..Len(in_vals) : in_vals[k]
AnyOf(in_vals) == \E k \in 1..Len(in_vals) : in_vals[k]

ComputeGateOutput(gate_type, in_vals) ==
    LET a == At(in_vals, 0)
        b == At(in_vals, 1)
    IN  IF gate_type = "nand2" THEN Negate(AndThen(a, b))
        ELSE IF gate_type = "and2" THEN AndThen(a, b)
        ELSE IF gate_type = "or2" THEN OrElse(a, b)
        ELSE IF gate_type = "nor2" THEN Negate(OrElse(a, b))
        ELSE IF gate_type = "xor2"
             THEN IF a.raised # "none" THEN a
                  ELSE IF b.raised # "none" THEN b
                  ELSE Value(a.val # b.val)
        ELSE IF gate_type \in {"not1", "inverter"} THEN Negate(a)
        ELSE IF gate_type \in {"buf1", "buffer"} THEN a
        ELSE IF StartsWith(gate_type, "nand") THEN Value(~AllOf(in_vals))
        ELSE IF StartsWith(gate_type, "and") THEN Value(AllOf(in_vals))
        ELSE IF StartsWith(gate_type, "or") THEN Value(AnyOf(in_vals))
        ELSE IF StartsWith(gate_type, "nor") THEN Value(~AnyOf(in_vals))
        ELSE Value(FALSE)

(***************************************************************************)
(* simulate.  A signal map is a function from names to booleans.           *)
(***************************************************************************)
EmptyMap == [k \in {} |-> FALSE]

\* signals[key] = val
Put(signals, key, val) == (key :> val) @@ signals

\* signals.get(key, False)
Get(signals, key) == IF key \in DOMAIN signals THEN signals[key] ELSE FALSE

\* one turn of the loop over self.gates, for gate g, from the map signals
SimulateStep(g, signals, faulty_gate, fault_value) ==
    IF g.output = None THEN [raised |-> "none", signals |-> signals]
    ELSE IF faulty_gate = g.name
    THEN [raised |-> "none", signals |-> Put(signals, g.output, fault_value)]
    ELSE LET in_vals == [m \in 1..Len(g.inputs) |-> Get(signals, g.inputs[m])]
             out     == ComputeGateOutput(g.type, in_vals)
         IN  IF out.raised # "none"
             THEN [raised |-> out.raised, signals |-> EmptyMap]
             ELSE [raised |-> "none", signals |-> Put(signals, g.output, out.val)]

\* the turns of the loop for the gates lo..hi in order, by halves; an
\* exception ends the loop
RECURSIVE SimulateFrom(_, _, _, _, _, _)
SimulateFrom(gs, lo, hi, signals, faulty_gate, fault_value) ==
    IF lo > hi THEN [raised |-> "none", signals |-> signals]
    ELSE IF lo = hi THEN SimulateStep(gs[lo], signals, faulty_gate, fault_value)
    ELSE LET mid  == (lo + hi) \div 2
             left == SimulateFrom(gs, lo, mid, signals, faulty_gate, fault_value)
         IN  IF left.raised # "none" THEN left
             ELSE SimulateFrom(gs, mid + 1, hi, left.signals, faulty_gate, fault_value)

\* simulate(inputs, faulty_gate, fault_value) on the gate list gs
SimulateOf(gs, input_values, faulty_gate, fault_value) ==
    SimulateFrom(gs, 1, Len(gs), input_values, faulty_gate, fault_value)

(***************************************************************************)
(* _checkConsistent.  Simulated values are booleans, so `simulated is not  *)
(* None` holds of every value compared.                                    *)
(***************************************************************************)
\* a slip: `for out in sample` in place of `for out in self.outputs`
CheckConsistentAllKeys(outs, signals, sample) ==
    \A key \in DOMAIN sample \cap DOMAIN signals : signals[key] = sample[key]

\* a slip: `sample.get(out, False)` in place of the test `out in sample`
CheckConsistentDefaultFalse(outs, signals, sample) ==
    \A k \in 1..Len(outs) :
        outs[k] \in DOMAIN signals
            => signals[outs[k]] = (IF outs[k] \in DOMAIN sample THEN sample[outs[k]] ELSE FALSE)

CheckConsistent(outs, signals, sample) ==
    \A k \in 1..Len(outs) :
        (outs[k] \in DOMAIN sample /\ outs[k] \in DOMAIN signals)
            => signals[outs[k]] = sample[outs[k]]

(***************************************************************************)
(* Input.  timed says that timeout and start_time are both given (truthy); *)
(* late_from is the first gate index at which the clock, were it read, is  *)
(* past the budget: the elapsed time only grows, and the code reads the    *)
(* clock at the indices that are multiples of 100.                         *)
(***************************************************************************)
CheckEvery == 100

\* what a call of Input hands back: the pair it returns, with the number of
\* gates its enumeration went through, or the exception that leaves it
Returned(detection, isolation, tried) ==
    [raised |-> "none", detection |-> detection, isolation |-> isolation, tried |-> tried]
Raises(what) == [raised |-> what, detection |-> FALSE, isolation |-> {}, tried |-> 0]

\* {inp: sample[inp] for inp in self.inputs if inp in sample}
InputValues(ins, sample) == [inp \in Range(ins) \cap DOMAIN sample |-> sample[inp]]

\* the enumeration before its first turn
NoneTried == [raised |-> "none", stopped |-> FALSE, isolation |-> {}, tried |-> 0]

\* a slip: the stuck-at-false simulation is left out
EnumerateStepTrueOnly(gs, outs, input_values, sample, timed, late_from, idx, st) ==
    IF timed /\ idx % CheckEvery = 0 /\ idx >= late_from
    THEN [st EXCEPT !.stopped = TRUE]
    ELSE LET gate_name    == gs[idx + 1].name
             signals_true == SimulateOf(gs, input_values, gate_name, TRUE)
         IN  IF signals_true.raised # "none"
             THEN [st EXCEPT !.raised = signals_true.raised]
             ELSE IF CheckConsistent(outs, signals_true.signals, sample)
             THEN [st EXCEPT !.isolation = @ \cup {gate_name}, !.tried = @ + 1]
             ELSE [st EXCEPT !.tried = @ + 1]

\* a slip: `break` in place of `continue` after a stuck-at-true candidate
EnumerateStepBreak(gs, outs, input_values, sample, timed, late_from, idx, st) ==
    IF timed /\ idx % CheckEvery = 0 /\ idx >= late_from
    THEN [st EXCEPT !.stopped = TRUE]
    ELSE LET gate_name    == gs[idx + 1].name
             signals_true == SimulateOf(gs, input_values, gate_name, TRUE)
         IN  IF signals_true.raised # "none"
             THEN [st EXCEPT !.raised = signals_true.raised]
             ELSE IF CheckConsistent(outs, signals_true.signals, sample)
             THEN [st EXCEPT !.isolation = @ \cup {gate_name}, !.tried = @ + 1,
                             !.stopped = TRUE]
             ELSE LET signals_false == SimulateOf(gs, input_values, gate_name, FALSE)
                  IN  IF signals_false.raised # "none"
                      THEN [st EXCEPT !.raised = signals_false.raised]
                      ELSE IF CheckConsistent(outs, signals_false.signals, sample)
                      THEN [st EXCEPT !.isolation = @ \cup {gate_name}, !.tried = @ + 1]
                      ELSE [st EXCEPT !.tried = @ + 1]

\* a slip: the break drops the candidates found so far
EnumerateStepDropOnBreak(gs, outs, input_values, sample, timed, late_from, idx, st) ==
    IF timed /\ idx % CheckEvery = 0 /\ idx >= late_from
    THEN [st EXCEPT !.stopped = TRUE, !.isolation = {}]
    ELSE LET gate_name    == gs[idx + 1].name
             signals_true == SimulateOf(gs, input_values, gate_name, TRUE)
         IN  IF signals_true.raised # "none"
             THEN [st EXCEPT !.raised = signals_true.raised]
             ELSE IF CheckConsistent(outs, signals_true.signals, sample)
             THEN [st EXCEPT !.isolation = @ \cup {gate_name}, !.tried = @ + 1]
             ELSE LET signals_false == SimulateOf(gs, input_values, gate_name, FALSE)
                  IN  IF signals_false.raised # "none"
                      THEN [st EXCEPT !.raised = signals_false.raised]
                      ELSE IF CheckConsistent(outs, signals_false.signals, sample)
                      THEN [st EXCEPT !.isolation = @ \cup {gate_name}, !.tried = @ + 1]
                      ELSE [st EXCEPT !.tried = @ + 1]

\* a slip: the clock is read at index 0 only
EnumerateStepCheckOnce(gs, outs, input_values, sample, timed, late_from, idx, st) ==
    IF timed /\ idx = 0 /\ idx >= late_from
    THEN [st EXCEPT !.stopped = TRUE]
    ELSE LET gate_name    == gs[idx + 1].name
             signals_true == SimulateOf(gs, input_values, gate_name, TRUE)
         IN  IF signals_true.raised # "none"
             THEN [st EXCEPT !.raised = signals_true.raised]
             ELSE IF CheckConsistent(outs, signals_true.signals, sample)
             THEN [st EXCEPT !.isolation = @ \cup {gate_name}, !.tried = @ + 1]
             ELSE LET signals_false == SimulateOf(gs, input_values, gate_name, FALSE)
                  IN  IF signals_false.raised # "none"
                      THEN [st EXCEPT !.raised = signals_false.raised]
                      ELSE IF CheckConsistent(outs, signals_false.signals, sample)
                      THEN [st EXCEPT !.isolation = @ \cup {gate_name}, !.tried = @ + 1]
                      ELSE [st EXCEPT !.tried = @ + 1]

\* one turn of the loop `for idx, gate in enumerate(self.gates)`: the
\* deadline check and its break, then the two trials of the gate
EnumerateStep(gs, outs, input_values, sample, timed, late_from, idx, st) ==
    IF timed /\ idx % CheckEvery = 0 /\ idx >= late_from
    THEN [st EXCEPT !.stopped = TRUE]
    ELSE LET gate_name    == gs[idx + 1].name
             signals_true == SimulateOf(gs, input_values, gate_name, TRUE)
         IN  IF signals_true.raised # "none"
             THEN [st EXCEPT !.raised = signals_true.raised]
             ELSE IF CheckConsistent(outs, signals_true.signals, sample)
             THEN [st EXCEPT !.isolation = @ \cup {gate_name}, !.tried = @ + 1]
             ELSE LET signals_false == SimulateOf(gs, input_values, gate_name, FALSE)
                  IN  IF signals_false.raised # "none"
                      THEN [st EXCEPT !.raised = signals_false.raised]
                      ELSE IF CheckConsistent(outs, signals_false.signals, sample)
                      THEN [st EXCEPT !.isolation = @ \cup {gate_name}, !.tried = @ + 1]
                      ELSE [st EXCEPT !.tried = @ + 1]

\* the turns of the loop for the indices lo..hi in order, by halves; the
\* break and an exception end the loop
RECURSIVE Enumerate(_, _, _, _, _, _, _, _, _)
Enumerate(gs, outs, input_values, sample, timed, late_from, lo, hi, st) ==
    IF lo > hi THEN st
    ELSE IF lo = hi
    THEN EnumerateStep(gs, outs, input_values, sample, timed, late_from, lo, st)
    ELSE LET mid  == (lo + hi) \div 2
             left == Enumerate(gs, outs, input_values, sample, timed, late_from, lo, mid, st)
         IN  IF left.stopped \/ left.raised # "none" THEN left
             ELSE Enumerate(gs, outs, input_values, sample, timed, late_from,
                            mid + 1, hi, left)

\* a slip: the candidates are enumerated whether or not the nominal
\* simulation agrees with the sample
InputOfAlwaysEnumerates(ins, outs, gs, sample, timed, late_from) ==
    LET input_values == InputValues(ins, sample)
        signals      == SimulateOf(gs, input_values, None, FALSE)
    IN  IF signals.raised # "none" THEN Raises(signals.raised)
        ELSE LET end == Enumerate(gs, outs, input_values, sample, timed, late_from,
                                  0, Len(gs) - 1, NoneTried)
             IN  IF end.raised # "none" THEN Raises(end.raised)
                 ELSE Returned(TRUE, end.isolation, end.tried)

InputOf(ins, outs, gs, sample, timed, late_from) ==
    LET input_values == InputValues(ins, sample)
        signals      == SimulateOf(gs, input_values, None, FALSE)
    IN  IF signals.raised # "none" THEN Raises(signals.raised)
        ELSE IF CheckConsistent(outs, signals.signals, sample)
        THEN Returned(FALSE, {}, 0)
        ELSE LET end == Enumerate(gs, outs, input_values, sample, timed, late_from,
                                  0, Len(gs) - 1, NoneTried)
             IN  IF end.raised # "none" THEN Raises(end.raised)
                 ELSE Returned(TRUE, end.isolation, end.tried)

(***************************************************************************)
(* The diagnoser instance, and the call in progress with its outcome.  The *)
(* instance is used by one caller, synchronously: a call is made when the  *)
(* previous one has returned.  Beside it, twin is the port and gate lists  *)
(* of a second instance that is given the same loads and no other call,    *)
(* and history tells which calls the instance has been through since its   *)
(* last completed load: none ("fresh"), some ("called"), or some of which   *)
(* one was interrupted by the harness's alarm ("interrupted").              *)
(***************************************************************************)
VARIABLES modelFile, inputs, outputs, gates, call, twin, history, scenario

vars == <<modelFile, inputs, outputs, gates, call, twin, history, scenario>>

\* self.modelFile = None
NoFile == [wellformed |-> FALSE]

\* what a fresh instance holds
Fresh == [modelFile |-> NoFile, inputs |-> << >>, outputs |-> << >>, gates |-> << >>]

\* the record of a call: its arguments, its outcome and, for a load or an
\* interrupted call, what the instance held when the call was made
NoCall ==
    [op |-> "none", arg |-> EmptyMap, faulty_gate |-> None, fault_value |-> FALSE,
     timed |-> FALSE, late_from |-> 0,
     raised |-> "none", signals |-> EmptyMap, detection |-> FALSE, isolation |-> {},
     tried |-> 0, at |-> 0, held |-> Fresh,
     gate_type |-> "", in_vals |-> << >>, value |-> FALSE,
     pairs |-> << >>, line |-> "", appended |-> FALSE, sensors |-> EmptyMap,
     gate_info |-> << >>, sorted |-> << >>]

\* the benchmark harness between two scenarios: harness is the function that
\* runs the scenario, late whether the time since scn_start_time is past
\* SOFT_TIMEOUT, retained the isolation the harness keeps for the score
\* (da_isolation, last_isolation), and early the last non-empty candidate
\* set returned by an observation begun within the budget
NoScenario == [harness |-> "none", late |-> FALSE, retained |-> {}, early |-> {}]

\* what the instance holds
Held == [modelFile |-> modelFile, inputs |-> inputs, outputs |-> outputs, gates |-> gates]

\* __init__
Init ==
    /\ modelFile = NoFile
    /\ inputs = << >>
    /\ outputs = << >>
    /\ gates = << >>
    /\ call = NoCall
    /\ twin = <<inputs, outputs, gates>>
    /\ history = "fresh"
    /\ scenario = NoScenario

\* no call is in progress
Idle == call.op = "none"

\* what _parseModel leaves in the instance for each file of the catalogue that
\* ET.parse accepts (a table of the pure function, evaluated once)
Parsed == [file \in {f \in ModelFiles : f.wellformed} |-> ParseModel(file)]

\* a slip: the port lists are not emptied before the ports are appended
newModelFileKeepingPorts(file) ==
    /\ Idle
    /\ modelFile' = file
    /\ IF file.wellformed
       THEN LET parsed == Parsed[file] IN
            /\ inputs' = SortNames(inputs \o parsed.inputs)
            /\ outputs' = SortNames(outputs \o parsed.outputs)
            /\ gates' = parsed.gates
            /\ call' = [NoCall EXCEPT !.op = "newModelFile", !.held = Held]
            /\ twin' = <<parsed.inputs, parsed.outputs, parsed.gates>>
            /\ history' = "fresh"
            /\ UNCHANGED scenario
       ELSE /\ UNCHANGED <<inputs, outputs, gates, twin, history, scenario>>
            /\ call' = [NoCall EXCEPT !.op = "newModelFile", !.raised = "ParseError",
                                      !.held = Held]

\* newModelFile(modelFile): ET.parse raises on a file that is not XML, after
\* self.modelFile is set and before anything else is
newModelFile(file) ==
    /\ Idle
    /\ modelFile' = file
    /\ IF file.wellformed
       THEN LET parsed == Parsed[file] IN
            /\ inputs' = parsed.inputs
            /\ outputs' = parsed.outputs
            /\ gates' = parsed.gates
            /\ call' = [NoCall EXCEPT !.op = "newModelFile", !.held = Held]
            /\ twin' = <<parsed.inputs, parsed.outputs, parsed.gates>>
            /\ history' = "fresh"
            /\ UNCHANGED scenario
       ELSE /\ UNCHANGED <<inputs, outputs, gates, twin, history, scenario>>
            /\ call' = [NoCall EXCEPT !.op = "newModelFile", !.raised = "ParseError",
                                      !.held = Held]

\* Initialize(): pass
Initialize ==
    /\ Idle
    /\ call' = [NoCall EXCEPT !.op = "Initialize"]
    /\ UNCHANGED <<modelFile, inputs, outputs, gates, twin, history, scenario>>

\* a slip: the fault is not call-local, the faulted gate is dropped from the
\* stored gate list
simulateStickyFault(x, faulty_gate, fault_value) ==
    LET ret == SimulateOf(gates, x, faulty_gate, fault_value) IN
    /\ Idle
    /\ call' = [NoCall EXCEPT !.op = "simulate", !.arg = x,
                              !.faulty_gate = faulty_gate, !.fault_value = fault_value,
                              !.raised = ret.raised, !.signals = ret.signals]
    /\ gates' = SelectSeq(gates, LAMBDA g : g.name # faulty_gate)
    /\ UNCHANGED <<modelFile, inputs, outputs, twin, history, scenario>>

\* simulate(x, faulty_gate, fault_value)
simulate(x, faulty_gate, fault_value) ==
    LET ret == SimulateOf(gates, x, faulty_gate, fault_value) IN
    /\ Idle
    /\ call' = [NoCall EXCEPT !.op = "simulate", !.arg = x,
                              !.faulty_gate = faulty_gate, !.fault_value = fault_value,
                              !.raised = ret.raised, !.signals = ret.signals]
    /\ UNCHANGED <<modelFile, inputs, outputs, gates, twin, history, scenario>>

\* Input(sample, timeout, start_time)
Input(sample, timed, late_from) ==
    LET ret == InputOf(inputs, outputs, gates, sample, timed, late_from) IN
    /\ Idle
    /\ call' = [NoCall EXCEPT !.op = "Input", !.arg = sample,
                              !.timed = timed, !.late_from = late_from,
                              !.raised = ret.raised, !.detection = ret.detection,
                              !.isolation = ret.isolation, !.tried = ret.tried]
    /\ UNCHANGED <<modelFile, inputs, outputs, gates, twin, history, scenario>>

\* Input(sample, ...) is still running at the point `at`: 0 is the nominal
\* simulation, k >= 1 the two trials of the k-th stored gate, reached when a
\* fault was detected and no earlier trial raised
Reaches(ins, outs, gs, sample, at) ==
    \/ at = 0
    \/ /\ at \in 1..Len(gs)
       /\ LET input_values == InputValues(ins, sample)
              nominal      == SimulateOf(gs, input_values, None, FALSE)
          IN  /\ nominal.raised = "none"
              /\ ~CheckConsistent(outs, nominal.signals, sample)
              /\ Enumerate(gs, outs, input_values, sample, FALSE, 0, 0, at - 2,
                           NoneTried).raised = "none"

\* a slip: the trial of a gate is made on the stored gate list, which is
\* without that gate when the alarm goes off
InputInterruptedInPlace(sample, at) ==
    /\ Idle
    /\ Reaches(inputs, outputs, gates, sample, at)
    /\ call' = [NoCall EXCEPT !.op = "InputInterrupted", !.arg = sample, !.timed = TRUE,
                              !.raised = "TimeoutError", !.at = at, !.held = Held]
    /\ gates' = [k \in 1..(Len(gates) - (IF at = 0 THEN 0 ELSE 1)) |->
                     IF at = 0 \/ k < at THEN gates[k] ELSE gates[k + 1]]
    /\ UNCHANGED <<modelFile, inputs, outputs, twin, history, scenario>>

\* Input(sample, timeout, start_time) during which the harness's alarm goes
\* off: timeout_handler raises TimeoutError at the point the call has
\* reached, in the nominal simulation or in the enumeration; the call has
\* assigned to its local variables only, and is left with nothing returned
InputInterrupted(sample, at) ==
    /\ Idle
    /\ Reaches(inputs, outputs, gates, sample, at)
    /\ call' = [NoCall EXCEPT !.op = "InputInterrupted", !.arg = sample, !.timed = TRUE,
                              !.raised = "TimeoutError", !.at = at, !.held = Held]
    /\ UNCHANGED <<modelFile, inputs, outputs, gates, twin, history, scenario>>

\* the history once the call in progress is over
After ==
    IF call.op = "InputInterrupted" THEN "interrupted"
    ELSE IF call.op \in {"simulate", "Input"} /\ history = "fresh" THEN "called"
    ELSE history

\* the call returns (or its exception reaches the caller), and the caller
\* goes on to its next call
Return ==
    /\ ~Idle
    /\ call' = NoCall
    /\ history' = After
    /\ UNCHANGED <<modelFile, inputs, outputs, gates, twin, scenario>>

(***************************************************************************)
(* The arguments of the calls.                                             *)
(***************************************************************************)
\* a key of a sample that is no port of any model file
ExtraKey == "z1"

\* the boolean maps over the ports, at most MaxAbsent of them left out, and
\* over any of the optional keys
Vectors(ports, optional) ==
    UNION {[(ports \ absent) \cup extra -> BOOLEAN] :
               absent \in {a \in SUBSET ports : Cardinality(a) <= MaxAbsent},
               extra \in SUBSET optional}

\* the model is a long one: its calls are made with every port given
Long == Len(gates) > CheckEvery

InputVectors ==
    IF Long THEN [Range(inputs) -> BOOLEAN] ELSE Vectors(Range(inputs), {})

Samples ==
    IF Long THEN [Range(inputs) \cup Range(outputs) -> BOOLEAN]
    ELSE Vectors(Range(inputs) \cup Range(outputs), {ExtraKey})

GateNames == {gates[k].name : k \in 1..Len(gates)}

\* the gate index the enumeration is at when the clock passes the budget:
\* before the first read of the clock, just after it, or Len(gates) for a
\* clock that stays within the budget
LateChoices == {k \in {0, 1, Len(gates)} : k <= Len(gates)}

\* the points of an Input call at which the alarm goes off: the nominal
\* simulation, the trial of the first stored gate, or that of the last
InterruptPoints == {k \in {0, 1, Len(gates)} : k <= Len(gates)}

Next ==
    \/ \E file \in ModelFiles : newModelFile(file)
    \/ Initialize
    \/ \E x \in InputVectors : simulate(x, None, FALSE)
    \/ \E x \in InputVectors, g \in GateNames, v \in BOOLEAN : simulate(x, g, v)
    \/ \E sample \in Samples : Input(sample, FALSE, Len(gates))
    \/ \E sample \in Samples, late_from \in LateChoices : Input(sample, TRUE, late_from)
    \/ \E sample \in Samples, at \in InterruptPoints : InputInterrupted(sample, at)
    \/ Return

Spec == Init /\ [][Next]_vars

(***************************************************************************)
(* The helper functions on their own: each is applied to arguments drawn   *)
(* from bounded sets, on an instance that holds no model.                  *)
(***************************************************************************)
\* the longest list of input values given to _computeGateOutput
MaxArity == 3

\* the gate types given to _computeGateOutput: the types it names, types it
\* knows by their prefix, and types it does not know
EvalTypes == {"nand2", "and2", "or2", "nor2", "xor2", "not1", "inverter", "buf1",
              "buffer", "nand3", "and3", "or3", "nor3", "and9", "wire", "port"}

\* the lists of 1..MaxArity booleans
ValueLists == UNION {[1..n -> BOOLEAN] : n \in 1..MaxArity}

\* _computeGateOutput(gate_type, in_vals)
computeGateOutput(gate_type, in_vals) ==
    LET out == ComputeGateOutput(gate_type, in_vals) IN
    /\ Idle
    /\ call' = [NoCall EXCEPT !.op = "_computeGateOutput", !.gate_type = gate_type,
                              !.in_vals = in_vals, !.raised = out.raised,
                              !.value = out.val]
    /\ UNCHANGED <<modelFile, inputs, outputs, gates, twin, history, scenario>>

(***************************************************************************)
(* The decoding of a `sensors` line of a scenario file, character by       *)
(* character as str.find, str.strip and str.split do it.                   *)
(***************************************************************************)
\* s[k], k counted from 0
CharAt(s, k) == SubSeq(s, k + 1, k + 1)

\* s.find(c) for a character c: the first index, -1 if there is none
Find(s, c) ==
    IF \E k \in 0..(Len(s) - 1) : CharAt(s, k) = c
    THEN CHOOSE k \in 0..(Len(s) - 1) :
             CharAt(s, k) = c /\ \A j \in 0..(k - 1) : CharAt(s, j) # c
    ELSE -1

\* s.strip(), the white space being blanks
Strip(s) ==
    LET inked == {k \in 1..Len(s) : SubSeq(s, k, k) # " "}
    IN  IF inked = {} THEN ""
        ELSE SubSeq(s, CHOOSE k \in inked : \A j \in inked : k <= j,
                       CHOOSE k \in inked : \A j \in inked : k >= j)

\* s.split(c) for a character c
RECURSIVE Split(_, _)
Split(s, c) ==
    LET k == Find(s, c)
    IN  IF k = -1 THEN <<s>>
        ELSE <<SubSeq(s, 1, k)>> \o Split(SubSeq(s, k + 2, Len(s)), c)

\* the loop `for pair in content.split(',')` over the first n pairs: a pair
\* with an = sets sensors[key] = (value == 'true'), any other is skipped
RECURSIVE SensorsOf(_, _)
SensorsOf(parts, n) ==
    IF n = 0 THEN EmptyMap
    ELSE LET before == SensorsOf(parts, n - 1)
             pair   == Strip(parts[n])
             eq     == Find(pair, "=")
         IN  IF eq = -1 THEN before
             ELSE LET key   == Strip(SubSeq(pair, 1, eq))
                      value == Strip(SubSeq(pair, eq + 2, Len(pair)))
                  IN  Put(before, key, value = "true")

\* what the scenario reader does with one line: appended is whether a
\* sensors dict is appended to sensor_readings, to be given to Input
DecodeLine(text) ==
    LET line  == Strip(text)
        start == Find(line, "{")
        end   == Find(line, "}")
    IN  IF StartsWith(line, "sensors") /\ start # -1 /\ end # -1
        THEN LET content == Strip(SubSeq(line, start + 2, end))
                 parts   == Split(content, ",")
             IN  [appended |-> TRUE, sensors |-> SensorsOf(parts, Len(parts))]
        ELSE [appended |-> FALSE, sensors |-> EmptyMap]

\* the most key = value pairs on a sensors line
MaxPairs == 2

\* the value tokens written on a line, and the keys
ValueTokens == {"true", "false", "True", "1", "maybe"}
SensorKeys == {"i1", "o1"}

\* the pairs of a line: a key, a value token, and whether blanks surround them
LinePairs ==
    UNION {[1..n -> [key : SensorKeys, token : ValueTokens]] : n \in 1..MaxPairs}

\* the text of a sensors line with the given pairs
RECURSIVE JoinPairs(_, _, _)
JoinPairs(pairs, n, blanks) ==
    LET sep  == IF blanks THEN " = " ELSE "="
        pair == pairs[n].key \o sep \o pairs[n].token
    IN  IF n = 1 THEN pair
        ELSE JoinPairs(pairs, n - 1, blanks) \o (IF blanks THEN " , " ELSE ",") \o pair

SensorsLine(pairs, blanks) ==
    "sensors @1 " \o (IF blanks THEN "{ " ELSE "{")
                  \o JoinPairs(pairs, Len(pairs), blanks)
                  \o (IF blanks THEN " };  " ELSE "};")

\* the reader decodes one sensors line
decodeSensors(pairs, blanks) ==
    LET text == SensorsLine(pairs, blanks)
        out  == DecodeLine(text)
    IN  /\ Idle
        /\ call' = [NoCall EXCEPT !.op = "sensors", !.pairs = pairs, !.line = text,
                                  !.appended = out.appended, !.sensors = out.sensors]
        /\ UNCHANGED <<modelFile, inputs, outputs, gates, twin, history, scenario>>

(***************************************************************************)
(* The gate_info dicts given to _topologicalSort: gate gk drives zk and    *)
(* reads one or two signals, an undriven signal or the outputs of any of   *)
(* the gates, its own included.                                            *)
(***************************************************************************)
\* the most gates of a gate_info
MaxGates == 3

SortGate(k) == Nm("g", k)
SortSignal(k) == IF k = 0 THEN "x" ELSE Nm("z", k)

\* the input lists of a gate among n: one signal, or two (the same twice, or
\* two in the order of their numbers)
PinLists(n) ==
    {<<SortSignal(a)>> : a \in 0..n}
    \cup UNION {{<<SortSignal(a), SortSignal(b)>> : b \in a..n} : a \in 0..n}

\* the gate_info of n gates with the given input lists
GateInfoOf(n, pins) ==
    [k \in 1..n |-> [name |-> SortGate(k), type |-> "and2", inputs |-> pins[k],
                     output |-> SortSignal(k)]]

\* _topologicalSort(gate_info)
topologicalSort(gate_info) ==
    /\ Idle
    /\ call' = [NoCall EXCEPT !.op = "_topologicalSort", !.gate_info = gate_info,
                              !.sorted = TopologicalSort(gate_info)]
    /\ UNCHANGED <<modelFile, inputs, outputs, gates, twin, history, scenario>>

\* the caller waits for a call to return before making the next
HelperNext ==
    \/ /\ Idle
       /\ \E n \in 1..MaxGates : \E pins \in [1..n -> PinLists(n)] :
              topologicalSort(GateInfoOf(n, pins))
    \/ /\ Idle
       /\ \E gate_type \in EvalTypes, in_vals \in ValueLists :
              computeGateOutput(gate_type, in_vals)
    \/ /\ Idle
       /\ \E pairs \in LinePairs, blanks \in BOOLEAN : decodeSensors(pairs, blanks)
    \/ Return

HelperSpec == Init /\ [][HelperNext]_vars

(***************************************************************************)
(* The benchmark harness: it loads a model, then for each scenario notes   *)
(* the start time once and gives the observations to Input one by one,     *)
(* each with timeout=SOFT_TIMEOUT and the start time of the scenario.      *)
(***************************************************************************)
\* the models the harness runs
HarnessFiles == {AndNot, FanOut, TwoOutputs, UnwiredSecond, SingleGate("xor2")}

Harnesses == {"run_ag_benchmark", "run_benchmark"}

InScenario == scenario.harness \in Harnesses

\* scn_start_time = time.time(); da_isolation = set() (last_isolation = set())
beginScenario(harness) ==
    /\ Idle /\ modelFile \in HarnessFiles /\ scenario.harness = "none"
    /\ scenario' = [NoScenario EXCEPT !.harness = harness]
    /\ UNCHANGED <<modelFile, inputs, outputs, gates, call, twin, history>>

\* the time since the start of the scenario passes SOFT_TIMEOUT between two
\* observations
budgetPasses ==
    /\ Idle /\ InScenario /\ ~scenario.late
    /\ scenario' = [scenario EXCEPT !.late = TRUE]
    /\ UNCHANGED <<modelFile, inputs, outputs, gates, call, twin, history>>

\* what the harness keeps of the pair an observation returns:
\* run_ag_benchmark `if detection and isolation: da_isolation = isolation`,
\* run_benchmark `last_isolation = isolation`
Retain(harness, retained, ret) ==
    IF harness = "run_ag_benchmark"
    THEN IF ret.detection /\ ret.isolation # {} THEN ret.isolation ELSE retained
    ELSE ret.isolation

\* one observation of the scenario: EDS.Input(sensors, timeout=SOFT_TIMEOUT,
\* start_time=scn_start_time) and what the harness keeps of its result.  The
\* clock is past the budget from index 0 on exactly when the scenario is
\* already late; otherwise it passes the budget during the call
\* (late_from < Len(gates)) or not at all.  An exception of Input other than
\* TimeoutError is not caught and ends the harness.
observe(sample, late_from) ==
    LET ret == InputOf(inputs, outputs, gates, sample, TRUE, late_from) IN
    /\ Idle /\ InScenario
    /\ late_from = 0 <=> scenario.late
    /\ call' = [NoCall EXCEPT !.op = "Input", !.arg = sample,
                              !.timed = TRUE, !.late_from = late_from,
                              !.raised = ret.raised, !.detection = ret.detection,
                              !.isolation = ret.isolation, !.tried = ret.tried]
    /\ scenario' =
           IF ret.raised # "none" THEN [scenario EXCEPT !.harness = "crashed"]
           ELSE [scenario EXCEPT
                    !.late = late_from < Len(gates),
                    !.retained = Retain(scenario.harness, scenario.retained, ret),
                    !.early = IF ~scenario.late /\ ret.isolation # {}
                              THEN ret.isolation ELSE @]
    /\ UNCHANGED <<modelFile, inputs, outputs, gates, twin, history>>

\* signal.alarm(0) and the score of the scenario; the next one starts afresh
endScenario ==
    /\ Idle /\ InScenario
    /\ scenario' = NoScenario
    /\ UNCHANGED <<modelFile, inputs, outputs, gates, call, twin, history>>

HarnessNext ==
    \/ /\ scenario.harness = "none"
       /\ \E file \in HarnessFiles : newModelFile(file)
    \/ \E harness \in Harnesses : beginScenario(harness)
    \/ budgetPasses
    \/ /\ Idle
       /\ \E sample \in Samples, late_from \in LateChoices : observe(sample, late_from)
    \/ endScenario
    \/ Return

HarnessSpec == Init /\ [][HarnessNext]_vars

(***************************************************************************)
(* Vocabulary of the properties.                                           *)
(***************************************************************************)
\* the fault-free simulation of the input vector x on the current model
Nominal(x) == SimulateOf(gates, x, None, FALSE)

\* the simulation of x with gate g stuck at v
Faulted(x, g, v) == SimulateOf(gates, x, g, v)

\* the observation made of a simulation of x: x together with the values of
\* the output ports in the simulated map
Observation(x, signals) ==
    LET outs == Range(outputs) \cap DOMAIN signals
    IN  [k \in DOMAIN x \cup outs |-> IF k \in outs THEN signals[k] ELSE x[k]]

\* a sample and a simulated map differ on an output port present in both
DiffersOnOutput(sample, signals) ==
    \E out \in Range(outputs) \cap DOMAIN sample \cap DOMAIN signals :
        sample[out] # signals[out]

\* the call in progress is Input, and has returned a pair
InputReturned == call.op = "Input" /\ call.raised = "none"

\* the deadline does not cut the enumeration of the call short: no timeout is
\* given, or the clock stays within the budget at every index it is read
NotCutShort == ~call.timed \/ call.late_from >= Len(gates)

\* the input-port values Input takes from the sample of the call
CallInputs == InputValues(inputs, call.arg)

\* gate g stuck at v reproduces the sample of the call
Reproduces(g, v) ==
    LET s == Faulted(CallInputs, g, v)
    IN  s.raised = "none" /\ CheckConsistent(outputs, s.signals, call.arg)

\* a sample without one of its keys
Without(sample, key) == [k \in DOMAIN sample \ {key} |-> sample[k]]

(***************************************************************************)
(* The properties of the fault diagnoser.                                  *)
(***************************************************************************)

\* C1 (fault coverage): when the sample of an Input call is an input vector x
\* together with the output-port values of simulate(x, g, v), and it differs
\* from the nominal simulate(x) on an output port, the call returns
\* detected = true and a candidate set that contains g.
C1_FaultCoverage ==
    \A x \in InputVectors, g \in GateNames, v \in BOOLEAN :
        LET f == Faulted(x, g, v)
            n == Nominal(x)
        IN  (/\ call.op = "Input" /\ NotCutShort
             /\ f.raised = "none" /\ n.raised = "none"
             /\ call.arg = Observation(x, f.signals)
             /\ DiffersOnOutput(call.arg, n.signals))
            => (InputReturned /\ call.detection /\ g \in call.isolation)

C3_NominalConsistency ==
    \A x \in InputVectors :
        LET n == Nominal(x)
        IN  (/\ call.op = "Input"
             /\ n.raised = "none"
             /\ call.arg = Observation(x, n.signals))
            => (InputReturned /\ ~call.detection)

\* an Input call on the nominal observation of a model with gates and an
\* observed output has returned
C3_Witness ==
    \E x \in InputVectors :
        LET n == Nominal(x)
        IN  /\ InputReturned
            /\ n.raised = "none"
            /\ call.arg = Observation(x, n.signals)
            /\ Len(gates) >= 2
            /\ Range(outputs) \cap DOMAIN call.arg # {}
            /\ \E k \in DOMAIN x : x[k]

\* C4: when Input returns detected = true and the deadline has not cut the
\* enumeration short, the returned candidates are exactly the gates that
\* reproduce the sample stuck at true or stuck at false (none, when no single
\* stuck-at fault reproduces it).
C4_ExactCandidates ==
    (InputReturned /\ call.detection /\ NotCutShort)
        => call.isolation = {g \in GateNames : Reproduces(g, TRUE) \/ Reproduces(g, FALSE)}

\* an Input call has returned detected = true with some gates, not all, as
\* candidates, one of them found stuck at false
C4_Witness ==
    /\ InputReturned /\ call.detection /\ NotCutShort
    /\ call.isolation # {}
    /\ call.isolation # GateNames
    /\ \E g \in call.isolation : ~Reproduces(g, TRUE)

\* C5: Input returns detected = true if and only if the nominal simulation
\* of the sample's input-port values differs from the sample on an output
\* port present in both.
C5_DetectionIffNominalDiffers ==
    LET n == Nominal(CallInputs)
    IN  call.op = "Input"
            => ((InputReturned /\ call.detection)
                    <=> (n.raised = "none" /\ DiffersOnOutput(call.arg, n.signals)))

\* C6 (partial-observation monotonicity, as stated): the candidates Input
\* returns for a sample are among those it returns for the sample with one
\* output port removed.
C6_HidingNeverShrinks ==
    \A out \in Range(outputs) \cap DOMAIN call.arg :
        LET r == InputOf(inputs, outputs, gates, Without(call.arg, out),
                         call.timed, call.late_from)
        IN  InputReturned => (r.raised = "none" /\ call.isolation \subseteq r.isolation)

\* C6 (amended): the candidates Input returns for a sample are among those it
\* returns for the sample with one output port removed, provided Input still
\* returns detected = true for the reduced sample.
C6_HidingNeverShrinksWhileDetected ==
    \A out \in Range(outputs) \cap DOMAIN call.arg :
        LET r == InputOf(inputs, outputs, gates, Without(call.arg, out),
                         call.timed, call.late_from)
        IN  InputReturned
                => (r.raised = "none" /\ (r.detection => call.isolation \subseteq r.isolation))

\* an Input call has returned candidates, and hiding one output of its sample
\* keeps the detection and adds a candidate
C6_Witness ==
    \E out \in Range(outputs) \cap DOMAIN call.arg :
        LET r == InputOf(inputs, outputs, gates, Without(call.arg, out),
                         call.timed, call.late_from)
        IN  /\ InputReturned /\ call.detection /\ NotCutShort
            /\ call.isolation # {}
            /\ r.detection
            /\ r.isolation # call.isolation

(***************************************************************************)
(* The properties of the loader.                                           *)
(***************************************************************************)
\* the call in progress is a load that completed
LoadReturned == call.op = "newModelFile" /\ call.raised = "none"

\* the gates of a file with their resolved pins, in the order of the file
FileGates(file) ==
    GateInfo(ParseComponents(file.components, Len(file.components)), file.connections)

\* gate a's output signal is an input signal of gate b
Feeds(a, b) == a.output # None /\ a.output \in Range(b.inputs)

\* one more edge: the gates fed by the gates reached last that were not
\* reached before
FedStep(info, st) ==
    LET next == {m \in 1..Len(info) \ st.seen :
                     \E k \in st.last : Feeds(info[k], info[m])}
    IN  [seen |-> st.seen \cup next, last |-> next]

\* n more edges, by halves
RECURSIVE FedSteps(_, _, _)
FedSteps(info, st, n) ==
    IF n = 0 \/ st.last = {} THEN st
    ELSE IF n = 1 THEN FedStep(info, st)
    ELSE LET half == FedSteps(info, st, n \div 2)
         IN  IF half.last = {} THEN half
             ELSE FedSteps(info, half, n - (n \div 2))

\* the gates (by index) fed, directly or through other gates, by a gate of
\* from, over paths of at most n edges
FedBy(info, from, n) == FedSteps(info, [seen |-> {}, last |-> from], n).seen

\* some gate is fed, through the gate graph, by its own output
HasCycle(info) == \E k \in 1..Len(info) : k \in FedBy(info, {k}, Len(info))

\* the number of input pins name.i1, name.i2, ... the file declares
RECURSIVE DeclaredInputPins(_, _, _)
DeclaredInputPins(file, name, i) ==
    IF \E k \in 1..Len(file.components) : file.components[k][1] = InputPin(name, i)
    THEN 1 + DeclaredInputPins(file, name, i + 1)
    ELSE 0

\* the endpoints a pin is connected to, the gate itself apart
PinNeighbours(file, name, pin) ==
    LET conns == file.connections
        ends  == {conns[k][2] : k \in {j \in 1..Len(conns) : conns[j][1] = pin}}
                 \cup {conns[k][1] : k \in {j \in 1..Len(conns) : conns[j][2] = pin}}
    IN  ends \ {name}

\* C7: a model file whose gate graph has a cycle is rejected by
\* newModelFile: the load does not complete.
C7_CyclicModelRejected ==
    (call.op = "newModelFile" /\ modelFile.wellformed /\ HasCycle(FileGates(modelFile)))
        => call.raised # "none"

\* C8: no two gates of the stored gate list have the same output signal.
C8_SingleDriver ==
    \A k, m \in 1..Len(gates) :
        (k # m /\ gates[k].output # None) => gates[k].output # gates[m].output

\* C9: after a load that completed, every stored gate has one input signal
\* for each input pin the file declares for it, the k-th being an endpoint
\* connected to its k-th pin, and has an output signal when the file declares
\* its output pin.
C9_EveryPinResolved ==
    LoadReturned =>
        \A k \in 1..Len(gates) :
            LET g == gates[k]
            IN  /\ Len(g.inputs) = DeclaredInputPins(modelFile, g.name, 1)
                /\ \A j \in 1..Len(g.inputs) :
                       g.inputs[j] \in PinNeighbours(modelFile, g.name, InputPin(g.name, j))
                /\ (\E c \in 1..Len(modelFile.components) :
                        modelFile.components[c][1] = OutputPin(g.name))
                       => g.output # None

\* C10 (topological soundness): in the stored gate list every gate comes
\* after every gate whose output signal is one of its input signals.
C10_ProducersFirst ==
    \A k, m \in 1..Len(gates) : Feeds(gates[m], gates[k]) => m < k

(***************************************************************************)
(* The properties of the simulator.                                        *)
(***************************************************************************)
\* the call in progress is simulate with a fault injected
FaultedSimulate == call.op = "simulate" /\ call.faulty_gate # None

\* the position of the gate called name in the stored gate list
GateIndex(name) == CHOOSE k \in 1..Len(gates) : gates[k].name = name

\* the signals produced by the gates fed, directly or through other gates,
\* by the k-th stored gate
Downstream(k) == {gates[m].output : m \in FedBy(gates, {k}, Len(gates))}

\* C11 (fault locality): simulate(x, g, v) returns a map that holds v at g's
\* output signal, and that agrees with the nominal simulate(x) on every
\* signal that is neither g's output nor produced by a gate downstream of g.
C11_FaultLocality ==
    FaultedSimulate =>
        LET k == GateIndex(call.faulty_gate)
            g == gates[k]
            n == Nominal(call.arg)
        IN  /\ call.raised = "none"
            /\ n.raised = "none"
            /\ g.output # None =>
                   /\ g.output \in DOMAIN call.signals
                   /\ call.signals[g.output] = call.fault_value
            /\ \A s \in (DOMAIN call.signals \cup DOMAIN n.signals)
                             \ ({g.output} \cup Downstream(k)) :
                   /\ s \in DOMAIN call.signals \cap DOMAIN n.signals
                   /\ call.signals[s] = n.signals[s]

\* C12: the map a simulate call returns holds, at every input port present
\* in the argument x, the value x gives it.
C12_InputPortsKept ==
    (call.op = "simulate" /\ call.raised = "none") =>
        \A p \in Range(inputs) \cap DOMAIN call.arg :
            /\ p \in DOMAIN call.signals
            /\ call.signals[p] = call.arg[p]

(***************************************************************************)
(* The properties of the soft deadline.                                    *)
(***************************************************************************)
\* the call in progress is Input with timeout and start_time given (and not
\* zero), and it returned detected = true: its enumeration ran
TimedEnumeration == InputReturned /\ call.timed /\ call.detection

CutShort ==
    /\ call.op = "Input" /\ call.timed
    /\ Nominal(CallInputs).raised = "none"
    /\ ~CheckConsistent(outputs, Nominal(CallInputs).signals, call.arg)
    /\ \E idx \in 0..(Len(gates) - 1) : idx % CheckEvery = 0 /\ idx >= call.late_from

\* the gates a stuck-at fault of which reproduces the sample of the call
Consistent == {g \in GateNames : Reproduces(g, TRUE) \/ Reproduces(g, FALSE)}

\* what the same call returns without a deadline
FullEnumeration == InputOf(inputs, outputs, gates, call.arg, FALSE, Len(gates))

\* C14: an Input call cut short by the deadline returns detected = true and
\* exactly the consistent gates among the gates tried before the break, a
\* prefix of the stored gate list; they are among the candidates the call
\* returns without a deadline.
C14_PartialCandidates ==
    CutShort =>
        /\ InputReturned
        /\ call.detection
        /\ call.tried < Len(gates)
        /\ call.isolation = {gates[k].name : k \in 1..call.tried} \cap Consistent
        /\ FullEnumeration.raised = "none" => call.isolation \subseteq FullEnumeration.isolation

\* a cut that leaves some candidates and loses some
C14_Witness ==
    /\ CutShort
    /\ InputReturned
    /\ call.isolation # {}
    /\ FullEnumeration.raised = "none"
    /\ call.isolation # FullEnumeration.isolation

(***************************************************************************)
(* The properties of Input as a whole.                                     *)
(***************************************************************************)
\* the last load completed: the instance holds the model of modelFile
Loaded == modelFile.wellformed

\* C15: every Input call on a loaded model returns a pair whose candidates
\* are names of gates of the model, and whose candidate set is empty when
\* detected is false.
C15_WellFormedResult ==
    (call.op = "Input" /\ Loaded) =>
        /\ call.raised = "none"
        /\ call.isolation \subseteq GateNames
        /\ ~call.detection => call.isolation = {}

\* the last load failed: modelFile names a file that could not be read
Rejected == modelFile = Malformed

\* the instance holds ports or gates of some model
HoldsModel == inputs # << >> \/ outputs # << >> \/ gates # << >>

\* C16: after a load that failed, an Input call does not return a result
\* computed from the ports and gates of a model.
C16_RejectedModelRefuses ==
    (call.op = "Input" /\ Rejected) => ~(call.raised = "none" /\ HoldsModel)

(***************************************************************************)
(* The properties of the instance across calls.                            *)
(***************************************************************************)
\* the port and gate lists of what an instance holds
Lists(h) == <<h.inputs, h.outputs, h.gates>>

\* what a fresh instance holds after loading file
FreshLoad(file) ==
    LET parsed == Parsed[file]
    IN  [modelFile |-> file, inputs |-> parsed.inputs, outputs |-> parsed.outputs,
         gates |-> parsed.gates]

\* C17: whatever loads and Input calls came before, an instance whose last
\* load completed holds exactly the ports and gates a fresh instance holds
\* after loading the same file, and loading the file it already holds
\* leaves the three lists as they were.
C17_LoadReplaces ==
    /\ Loaded => Held = FreshLoad(modelFile)
    /\ (LoadReturned /\ call.held.modelFile = modelFile) => Lists(Held) = Lists(call.held)

\* a load that replaced a model some of whose ports and gates the new one
\* does not have
C17_Witness ==
    /\ LoadReturned
    /\ call.held.modelFile.wellformed
    /\ call.held.modelFile # modelFile
    /\ Range(call.held.inputs) \ Range(inputs) # {}
    /\ Range(call.held.outputs) \ Range(outputs) # {}
    /\ {call.held.gates[k].name : k \in 1..Len(call.held.gates)} \ GateNames # {}

(***************************************************************************)
(* C18: determinism and history independence.                              *)
(***************************************************************************)
\* the outcome of the simulate call in progress: the map, or what it raised
SimulateOutcome == [raised |-> call.raised, signals |-> call.signals]

\* the outcome of the Input call in progress
InputOutcome ==
    [raised |-> call.raised, detection |-> call.detection, isolation |-> call.isolation]

\* the same calls on an instance that was given the same loads and no other
\* call
SimulateOnTwin == SimulateOf(twin[3], call.arg, call.faulty_gate, call.fault_value)
InputOnTwin == InputOf(twin[1], twin[2], twin[3], call.arg, call.timed, call.late_from)

\* C18: on a loaded model, whatever simulate and Input calls, faulted or
\* not, timed or not, interrupted or not, were made since the load, a
\* simulate call and an Input call whose deadline is not reached have the
\* outcome they have as the first call after the load: the same map, the
\* same pair, or the same exception.
C18_HistoryIndependence ==
    /\ (Loaded /\ call.op = "simulate") =>
           SimulateOutcome = [raised |-> SimulateOnTwin.raised,
                              signals |-> SimulateOnTwin.signals]
    /\ (Loaded /\ call.op = "Input" /\ NotCutShort) =>
           InputOutcome = [raised |-> InputOnTwin.raised,
                           detection |-> InputOnTwin.detection,
                           isolation |-> InputOnTwin.isolation]

\* a simulate call that returns a map with a gate's signal in it, made after
\* other calls on the same loaded model
C18_Witness ==
    /\ Loaded /\ history = "called"
    /\ call.op = "simulate" /\ call.raised = "none"
    /\ \E k \in 1..Len(gates) : gates[k].output \in DOMAIN call.signals

\* an Input call that returns candidates, made after other calls on the same
\* loaded model
C18_WitnessInput ==
    /\ Loaded /\ history = "called"
    /\ InputReturned /\ NotCutShort
    /\ call.detection /\ call.isolation # {}

(***************************************************************************)
(* C19: interrupt safety.                                                  *)
(***************************************************************************)
\* the alarm went off inside the Input call in progress
Interrupted == call.op = "InputInterrupted"

\* C19: when the alarm's TimeoutError leaves an Input call, in the nominal
\* simulation or in the trial of any gate, the instance holds the input
\* list, output list and gate list it held when the call was made; and every
\* Input call made on a loaded model after an interrupted one, timed or not,
\* has the outcome it has on an instance given the same loads and never
\* interrupted.
C19_InterruptSafety ==
    /\ Interrupted => Lists(Held) = Lists(call.held)
    /\ (Loaded /\ history = "interrupted" /\ call.op = "Input") =>
           InputOutcome = [raised |-> InputOnTwin.raised,
                           detection |-> InputOnTwin.detection,
                           isolation |-> InputOnTwin.isolation]

\* an Input call that returns candidates on an instance one of whose earlier
\* Input calls was interrupted
C19_Witness ==
    /\ Loaded /\ history = "interrupted"
    /\ InputReturned /\ call.detection /\ call.isolation # {}

\* the alarm goes off in the trial of the last gate of a model of several
\* gates
C19_WitnessAlarm ==
    /\ Interrupted /\ Loaded
    /\ call.at = Len(gates) /\ Len(gates) > 1

(***************************************************************************)
(* C20: the port lists.                                                    *)
(***************************************************************************)
\* the file has a component called name, and the last element of that name
\* gives it the type port
IsPort(file, name) ==
    \E k \in 1..Len(file.components) :
        /\ file.components[k] = <<name, "port">>
        /\ \A j \in (k + 1)..Len(file.components) : file.components[j][1] # name

\* each name of the list comes before the next by (length, then characters)
SortedByLenLex(names) ==
    \A j, k \in 1..Len(names) : j < k => KeyLess(names[j], names[k])

\* C20: whatever was loaded, the input list and the output list share no
\* name, the input names start with i and the output names with o, and each
\* list is in increasing order of (name length, name); after a load that
\* completes, every name of the two lists is a component of type port of the
\* file.
C20_PortLists ==
    /\ Range(inputs) \cap Range(outputs) = {}
    /\ \A name \in Range(inputs) : StartsWith(name, "i")
    /\ \A name \in Range(outputs) : StartsWith(name, "o")
    /\ SortedByLenLex(inputs)
    /\ SortedByLenLex(outputs)
    /\ Loaded => \A name \in Range(inputs) \cup Range(outputs) : IsPort(modelFile, name)

\* a completed load of a file whose ports come out of order, whose input
\* names differ in length so that the shorter goes first against the order
\* of the characters, and that has a component starting with i that is no
\* port and a port that starts with neither letter
C20_Witness ==
    /\ LoadReturned
    /\ \E j, k \in 1..Len(inputs) :
           j < k /\ Len(inputs[j]) < Len(inputs[k]) /\ StrLess(inputs[k], inputs[j])
    /\ inputs # PortList(ParseComponents(modelFile.components, Len(modelFile.components)), "i")
    /\ Len(outputs) > 1
    /\ \E k \in 1..Len(modelFile.components) :
           /\ StartsWith(modelFile.components[k][1], "i")
           /\ modelFile.components[k][2] = "port"
           /\ modelFile.components[k][1] \notin Range(inputs)
    /\ \E k \in 1..Len(modelFile.components) :
           /\ modelFile.components[k][2] = "port"
           /\ modelFile.components[k][1] \notin Range(inputs) \cup Range(outputs)
           /\ ~StartsWith(modelFile.components[k][1], "i")

(***************************************************************************)
(* C21: the truth tables of the gate evaluator.                            *)
(***************************************************************************)
\* the family of a type name: its letters up to the arity digit
IsAnd(gate_type)  == StartsWith(gate_type, "and")
IsNand(gate_type) == StartsWith(gate_type, "nand")
IsOr(gate_type)   == StartsWith(gate_type, "or")
IsNor(gate_type)  == StartsWith(gate_type, "nor")

\* the value the truth tables give for a type and a list of one or more
\* input values
TruthTable(gate_type, in_vals) ==
    IF gate_type \in {"buf1", "buffer"} THEN in_vals[1]
    ELSE IF gate_type \in {"not1", "inverter"} THEN ~in_vals[1]
    ELSE IF IsNand(gate_type) THEN ~(\A k \in 1..Len(in_vals) : in_vals[k])
    ELSE IF IsAnd(gate_type) THEN \A k \in 1..Len(in_vals) : in_vals[k]
    ELSE IF IsNor(gate_type) THEN ~(\E k \in 1..Len(in_vals) : in_vals[k])
    ELSE IF IsOr(gate_type) THEN \E k \in 1..Len(in_vals) : in_vals[k]
    ELSE IF gate_type = "xor2" /\ Len(in_vals) >= 2 THEN in_vals[1] # in_vals[2]
    ELSE FALSE

Evaluated == call.op = "_computeGateOutput"

\* C21: for every type and every list of one or more input values the
\* evaluation raises nothing and returns the value of the truth table:
\* in[0] for buf, its negation for not, the (negated) conjunction or
\* disjunction of all the inputs for the and, nand, or and nor families
\* whatever the number of inputs, in[0] xor in[1] for xor2, false for an
\* unknown type.
C21_TruthTables ==
    (Evaluated /\ (call.gate_type = "xor2" => Len(call.in_vals) = 2)) =>
        /\ call.raised = "none"
        /\ call.value = TruthTable(call.gate_type, call.in_vals)

\* the same for the evaluations that raise nothing: a 2-input name given
\* more than two inputs
C21_ValueWhenReturned ==
    (Evaluated /\ call.raised = "none") =>
        call.value = TruthTable(call.gate_type, call.in_vals)

\* the evaluations that keep to the tables: every type but the 2-input
\* names given a number of inputs other than two
C21_TablesAtDeclaredArity ==
    (Evaluated /\ (call.gate_type \in {"nand2", "and2", "or2", "nor2", "xor2"}
                      => Len(call.in_vals) = 2)) =>
        /\ call.raised = "none"
        /\ call.value = TruthTable(call.gate_type, call.in_vals)

(***************************************************************************)
(* C22: the value tokens of a sensors line.                                *)
(***************************************************************************)
Decoded == call.op = "sensors"

\* the keys of the line are distinct
DistinctKeys ==
    \A j, k \in 1..Len(call.pairs) : call.pairs[j].key = call.pairs[k].key => j = k

\* the line has a value token that is neither true nor false
BadToken == \E k \in 1..Len(call.pairs) : call.pairs[k].token \notin {"true", "false"}

\* C22: a sensors line with a value token other than true and false is
\* rejected: no observation decoded from it is handed to the diagnoser.
C22_BadTokenRejected == (Decoded /\ BadToken) => ~call.appended

\* the tokens true and false become the booleans: a line of such tokens is
\* decoded to the map that gives each key the boolean its token names
C22_TokensToBooleans ==
    (Decoded /\ ~BadToken /\ DistinctKeys) =>
        /\ call.appended
        /\ DOMAIN call.sensors = {call.pairs[k].key : k \in 1..Len(call.pairs)}
        /\ \A k \in 1..Len(call.pairs) :
               call.sensors[call.pairs[k].key] = (call.pairs[k].token = "true")

\* what the reader does with any other token: the observation is handed on
\* with the key set to false
C22_BadTokenReadAsFalse ==
    (Decoded /\ DistinctKeys) =>
        /\ call.appended
        /\ \A k \in 1..Len(call.pairs) :
               call.sensors[call.pairs[k].key] = (call.pairs[k].token = "true")

(***************************************************************************)
(* C23: the order of the topological sort.                                 *)
(***************************************************************************)
Sorted == call.op = "_topologicalSort"

\* the gates of the gate_info of the call, by position
Info(k) == call.gate_info[k]
InfoIndex == 1..Len(call.gate_info)

\* the position of the k-th gate of gate_info in the sorted list, 0 when it
\* is not in it
Position(k) ==
    IF \E p \in 1..Len(call.sorted) : call.sorted[p] = Info(k)
    THEN CHOOSE p \in 1..Len(call.sorted) : call.sorted[p] = Info(k)
    ELSE 0

\* the gates whose output the k-th gate reads
Producers(k) == {m \in InfoIndex : Feeds(Info(m), Info(k))}

\* the gates with no producing gate
Roots == {k \in InfoIndex : Producers(k) = {}}

\* the position after which the k-th gate has in-degree zero: that of the
\* last of its producers
ReadyAt(k) == CHOOSE p \in {Position(m) : m \in Producers(k)} :
                  \A m \in Producers(k) : Position(m) <= p

\* C23: every gate of the sorted list is a gate of gate_info and is there
\* once; the gates with no producing gate come first, in the order of
\* gate_info; a gate with producers is in the list exactly when all its
\* producers are; and of two such gates the one whose in-degree reaches zero
\* first comes first, the order of gate_info deciding between gates that the
\* same producer releases.
C23_FifoOrder ==
    Sorted =>
        /\ \A p \in 1..Len(call.sorted) : \E k \in InfoIndex : call.sorted[p] = Info(k)
        /\ \A p, q \in 1..Len(call.sorted) :
               call.sorted[p].name = call.sorted[q].name => p = q
        /\ \A k \in Roots : Position(k) = Cardinality({m \in Roots : m <= k})
        /\ \A k \in InfoIndex \ Roots :
               Position(k) # 0 <=> \A m \in Producers(k) : Position(m) # 0
        /\ \A j, k \in InfoIndex \ Roots :
               (Position(j) # 0 /\ Position(k) # 0 /\ j # k) =>
                   (Position(j) < Position(k) <=>
                        \/ ReadyAt(j) < ReadyAt(k)
                        \/ ReadyAt(j) = ReadyAt(k) /\ j < k)

\* a sort in which a gate with no producer is listed after a gate that
\* reads it, one producer releases two gates at once, and a gate reads the
\* same producer on both pins
C23_Witness ==
    /\ Sorted /\ Len(call.sorted) = Len(call.gate_info)
    /\ \E k \in Roots : \E j \in InfoIndex : j < k /\ Feeds(Info(k), Info(j))
    /\ \E j, k \in InfoIndex \ Roots : j # k /\ ReadyAt(j) = ReadyAt(k)
    /\ \E k \in InfoIndex \ Roots :
           Len(Info(k).inputs) = 2 /\ Info(k).inputs[1] = Info(k).inputs[2]

(***************************************************************************)
(* C24: every candidate deviates from its nominal output.                  *)
(***************************************************************************)
\* the value the k-th stored gate gives its output signal in the nominal
\* simulation of the inputs of the call, at its turn of the loop
NominalOutput(k) ==
    SimulateFrom(gates, 1, k, CallInputs, None, FALSE).signals[gates[k].output]

\* C24: when Input returns detected = true, every gate of the candidate set
\* has an output signal, and each stuck-at value under which the gate's
\* forced simulation agrees with the sample differs from the value the gate
\* gives its output in the nominal simulation of the same inputs.
C24_CandidatesDeviate ==
    (InputReturned /\ call.detection) =>
        \A g \in call.isolation :
            /\ gates[GateIndex(g)].output # None
            /\ \A v \in BOOLEAN : Reproduces(g, v) => v # NominalOutput(GateIndex(g))

\* the same, reading the gate's nominal output from the map simulate
\* returns; where two gates drive one signal (C8) the map has the value of
\* the gate that comes last, and this does not hold
C24_DeviatesFromNominalMap ==
    (InputReturned /\ call.detection) =>
        \A g \in call.isolation :
            \A v \in BOOLEAN :
                Reproduces(g, v) => v # Nominal(CallInputs).signals[gates[GateIndex(g)].output]

\* a call that returns candidates on a model one of whose stored gates has
\* no output signal
C24_Witness ==
    /\ InputReturned /\ call.detection
    /\ call.isolation # {}
    /\ \E k \in 1..Len(gates) : gates[k].output = None

(***************************************************************************)
(* C25: the soft budget runs from the start of the scenario.               *)
(***************************************************************************)
\* an observation of a scenario begun when the time since the start of the
\* scenario is already past the soft timeout, that returns detected = true
LateDetected ==
    /\ scenario.harness \in Harnesses
    /\ call.op = "Input" /\ call.late_from = 0
    /\ InputReturned /\ call.detection

\* C25: an observation made once the time since the start of the scenario
\* is past the soft timeout, if detected, returns the empty candidate set
\* with no gate tried, and the isolation the harness retains is then the
\* last non-empty candidate set returned by an observation begun before the
\* budget ran out.
C25_RetainsLastEarlySet ==
    LateDetected =>
        /\ call.isolation = {} /\ call.tried = 0
        /\ scenario.retained = scenario.early

\* C25 as the two harnesses have it: the late detected observation returns
\* the empty set with no gate tried; run_ag_benchmark then still retains the
\* last non-empty candidate set of an observation begun within the budget,
\* while run_benchmark retains the set of the last observation, the empty
\* one.
C25_RetainedPerHarness ==
    LateDetected =>
        /\ call.isolation = {} /\ call.tried = 0
        /\ scenario.retained = IF scenario.harness = "run_ag_benchmark"
                                THEN scenario.early ELSE {}

\* a late detected observation of a scenario of run_ag_benchmark in which an
\* earlier observation returned candidates, on a model with gates to try
C25_Witness ==
    /\ LateDetected /\ scenario.harness = "run_ag_benchmark"
    /\ scenario.early # {}
    /\ Len(gates) > 1

====
